---- MODULE Spec2Model ----
(***************************************************************************)
(* Model of the authentication slice of the FastAPI boilerplate service:   *)
(* the login-code (passwordless OTP) store and service, the JWT token      *)
(* codec, the JWT validation middleware and the authentication             *)
(* dependencies; the two login-code endpoints with the mail service, the   *)
(* database sessions of the routers and the generic repository update.     *)
(*                                                                         *)
(* Time is counted in ticks.  `now` is the UTC clock (datetime.now(UTC));  *)
(* the server's naive local clock (datetime.now()) is now + tz.  Strings   *)
(* the code inspects character by character (emails, paths, header and     *)
(* cookie values) are sequences of one-character strings.                  *)
(***************************************************************************)
EXTENDS Integers, Sequences, FiniteSets, TLC

VARIABLES now, tz, users, login_codes, issued, last, tok, resp,
          removed, mail, calls, requests, posts, accounts, logged_out

\* what the login-code and token scenarios leave alone: the count returned by
\* the last purge, the mail collaborator, the verifications in progress, the
\* requests in flight, the posts table, the credential columns of the user
\* table and the tokens presented at a logout
aside == <<removed, mail, calls, requests, posts, accounts, logged_out>>

vars == <<now, tz, users, login_codes, issued, last, tok, resp, aside>>

\* ------------------------------------------------------------------ bounds
MaxTime == 2
MaxRows == 2
MaxTz == 2
MaxClock == 4
TicksPerSecond == 2
MaxCalls == 2
MaxRequests == 3
MaxPosts == 2

\* --------------------------------------------------------- input alphabets
EmailA == <<"a", "@", "x">>
EmailB == <<"b", "@", "x">>
EmailNoAt == <<"a", "x">>
EmailEmpty == <<>>

Emails == {EmailA, EmailB}
\* the emails that sign up in the login-code scenarios
Registrants == {EmailA}
EmailInputs == {EmailA, EmailB, EmailNoAt, EmailEmpty}

Codes == {"111111", "222222"}
CodeInputs == Codes \cup {""}

TTLs == {1}
TzOffsets == {0 - MaxTz, 0, MaxTz}

\* ------------------------------------------------------------------ clocks
\* datetime.now(UTC)
UtcNow == now

\* datetime.now(): the naive local wall clock
LocalNow == now + tz

\* ------------------------------------------------------------- user store
get_by_email(email) ==
    LET m == {u \in users : u.email = email}
    IN  IF m = {} THEN {} ELSE {CHOOSE u \in m : \A v \in m : u.id <= v.id}

get_by_display_name(dn) ==
    LET m == {u \in users : u.display_name = dn}
    IN  IF m = {} THEN {} ELSE {CHOOSE u \in m : \A v \in m : u.id <= v.id}

NextId(table) ==
    IF table = {} THEN 1
    ELSE (CHOOSE r \in table : \A q \in table : q.id <= r.id).id + 1

\* ------------------------------------------------------- login-code model
is_expired_strict_mutant(row) == LocalNow >= row.expires_at

is_expired(row) == LocalNow > row.expires_at

is_valid(row) == ~is_expired(row) /\ ~row.is_used

get_by_email_and_code(email, code) ==
    LET m == {r \in login_codes : r.email = email /\ r.code = code}
    IN  IF m = {} THEN {} ELSE {CHOOSE r \in m : \A q \in m : r.id <= q.id}

get_active_code(email, code) ==
    {r \in get_by_email_and_code(email, code) : is_valid(r)}

mark_as_used_renew_mutant(rows, row) ==
    (rows \ {row})
        \cup {[row EXCEPT !.is_used = TRUE, !.expires_at = @ + 1]}

mark_as_used(rows, row) ==
    (rows \ {row}) \cup {[row EXCEPT !.is_used = TRUE]}

\* the rows delete_expired_codes selects: `if email:` narrows the statement
\* to one email, an empty email selects the expired rows of every email
ExpiredRows(rows, email) ==
    {r \in rows : /\ r.expires_at < UtcNow
                  /\ (email = <<>> \/ r.email = email)}

delete_all_codes_mutant(rows, email) ==
    rows \ {r \in rows : email = <<>> \/ r.email = email}

delete_expired_codes(rows, email) == rows \ ExpiredRows(rows, email)

create_code(rows, email, code, ttl) ==
    rows \cup {[id |-> NextId(rows), email |-> email, code |-> code,
                expires_at |-> UtcNow + ttl, is_used |-> FALSE]}

HasAt(email) == \E i \in 1..Len(email) : email[i] = "@"

\* ---------------------------------------------------- operation outcomes
\* `last` is the most recent call and what it returned.  `issued` follows
\* the row most recently handed out by create_login_code: its id, whether
\* verify_login_code was called for its (email, code) since, and whether
\* such a call succeeded.
Outcome(op, ret) == [op |-> op, ret |-> ret]

NoIssue == [id |-> 0, tried |-> FALSE, won |-> FALSE]

IssuedRow == {r \in login_codes : r.id = issued.id}

IsIssued(email, code) ==
    \E r \in IssuedRow : r.email = email /\ r.code = code

\* -------------------------------------------------------------- actions
Tick ==
    /\ now < MaxTime
    /\ now' = now + 1
    /\ last' = Outcome("tick", "none")
    /\ UNCHANGED <<tz, users, login_codes>>

CreateUser_email_only_mutant(email, dn) ==
    /\ IF get_by_email(email) # {}
       THEN /\ users' = users
            /\ last' = Outcome("create_user", "raise")
       ELSE /\ users' = users \cup {[id |-> NextId(users), email |-> email,
                                     name |-> "n", display_name |-> dn,
                                     state |-> "ACTIVE"]}
            /\ last' = Outcome("create_user", "ok")
    /\ UNCHANGED <<now, tz, login_codes>>

\* UserService.create_user
CreateUser(email, dn) ==
    /\ IF get_by_email(email) # {} \/ get_by_display_name(dn) # {}
       THEN /\ users' = users
            /\ last' = Outcome("create_user", "raise")
       ELSE /\ users' = users \cup {[id |-> NextId(users), email |-> email,
                                     name |-> "n", display_name |-> dn,
                                     state |-> "ACTIVE"]}
            /\ last' = Outcome("create_user", "ok")
    /\ UNCHANGED <<now, tz, login_codes>>

\* LoginCodeService.create_login_code
CreateLoginCode(email, ttl, code) ==
    /\ IF email = <<>> \/ ~HasAt(email)
       THEN /\ last' = Outcome("create_login_code", "raise")
            /\ UNCHANGED login_codes
       ELSE /\ Cardinality(delete_expired_codes(login_codes, email)) < MaxRows
            /\ login_codes' =
                 create_code(delete_expired_codes(login_codes, email),
                             email, code, ttl)
            /\ last' = Outcome("create_login_code", "ok")
    /\ UNCHANGED <<now, tz, users>>

VerifyLoginCode_mark_first_mutant(email, code) ==
    LET active == get_active_code(email, code)
        usr == get_by_email(email)
        ret == IF email = <<>> \/ code = "" THEN "none"
               ELSE IF active = {} THEN "none"
               ELSE IF usr = {} THEN "raise"
               ELSE "identity"
    IN
    /\ login_codes' =
         IF ret \in {"identity", "raise"}
         THEN mark_as_used(login_codes, CHOOSE r \in active : TRUE)
         ELSE login_codes
    /\ last' = Outcome("verify", ret)
    /\ UNCHANGED <<now, tz, users>>

\* LoginCodeService.verify_login_code
VerifyLoginCode(email, code) ==
    LET active == get_active_code(email, code)
        usr == get_by_email(email)
        ret == IF email = <<>> \/ code = "" THEN "none"
               ELSE IF active = {} THEN "none"
               ELSE IF usr = {} THEN "raise"
               ELSE "identity"
    IN
    /\ login_codes' =
         IF ret = "identity"
         THEN mark_as_used(login_codes, CHOOSE r \in active : TRUE)
         ELSE login_codes
    /\ last' = Outcome("verify", ret)
    /\ UNCHANGED <<now, tz, users>>

\* LoginCodeRepository.delete_expired_codes, called on its own
DeleteExpiredCodes(email) ==
    /\ login_codes' = delete_expired_codes(login_codes, email)
    /\ removed' = Cardinality(ExpiredRows(login_codes, email))
    /\ last' = Outcome("delete_expired_codes", "count")
    /\ UNCHANGED <<now, tz, users>>

\* The identity verify_login_code returns: user_id, email and name of the
\* user row found by email.
Identity(email) ==
    {[user_id |-> u.id, email |-> u.email, name |-> u.name] :
        u \in get_by_email(email)}

DnOf(email) == IF email = EmailA THEN "da" ELSE "db"

\* ============================================================ token codec
\* A string is a sequence of elements: a character, or the compact
\* serialization of one signed token (which contains no space).
NoJwt == [sig |-> "none", has |-> {}, user_id |-> 0, uid_text |-> FALSE,
          email |-> <<>>, rights |-> <<>>, groups |-> <<>>,
          exp |-> 0, iat |-> 0]

Ch(c) == [c |-> c, jwt |-> NoJwt]

Blob(t) == [c |-> "", jwt |-> t]

Str(cs) == [i \in 1..Len(cs) |-> Ch(cs[i])]

StartsWith(s, prefix) ==
    /\ Len(s) >= Len(prefix)
    /\ \A i \in 1..Len(prefix) : s[i] = prefix[i]

Drop(s, n) == IF Len(s) <= n THEN <<>> ELSE SubSeq(s, n + 1, Len(s))

\* the default token lifetime (the configured access-token expiry), in ticks
DefaultExpire == 2 * TicksPerSecond

\* timegm(dt.utctimetuple()): a time in ticks as whole seconds
Seconds(t) == t \div TicksPerSecond

\* timedelta | None
NoDelta == [given |-> FALSE, ticks |-> 0]

Delta(n) == [given |-> TRUE, ticks |-> n]

\* `if expires_delta:` - None and timedelta(0) are both falsy
Truthy(delta) == delta.given /\ delta.ticks # 0

\* jose.jwt.encode with the configured secret and algorithm
jwt_encode(payload) == <<Blob([payload EXCEPT !.sig = "ok"])>>

create_access_token(data, expires_delta) ==
    LET expire == IF Truthy(expires_delta)
                  THEN UtcNow + expires_delta.ticks
                  ELSE UtcNow + DefaultExpire
    IN  jwt_encode([data EXCEPT !.has = data.has \cup {"exp", "iat"},
                                !.exp = Seconds(expire),
                                !.iat = Seconds(UtcNow)])

\* The segments of the token parse (jose raises JWTError otherwise).
WellFormed(token) == Len(token) = 1 /\ token[1].jwt.sig # "none"

\* jose.jwt.get_unverified_claims: the payload, signature not checked
get_unverified_claims(token) == token[1].jwt

\* jose's _validate_exp: ExpiredSignatureError iff exp < now (in seconds)
jwt_expired(payload) ==
    "exp" \in payload.has /\ payload.exp < Seconds(UtcNow)

\* jose.jwt.decode: TRUE iff it returns the payload instead of raising
jwt_decode_ok(token) ==
    /\ WellFormed(token)
    /\ token[1].jwt.sig = "ok"
    /\ ~jwt_expired(token[1].jwt)

DefaultRights == <<"READ">>

DefaultGroups == <<"ACTIVE_USER">>

NoData == [user_id |-> 0, email |-> <<>>, rights |-> <<>>, groups |-> <<>>]

Result(kind, data) == [kind |-> kind, data |-> data]

TokenData(payload) ==
    [user_id |-> payload.user_id, email |-> payload.email,
     rights |-> IF "rights" \in payload.has THEN payload.rights
                ELSE DefaultRights,
     groups |-> IF "groups" \in payload.has THEN payload.groups
                ELSE DefaultGroups]

verify_access_token_no_rights_mutant(token) ==
    IF ~jwt_decode_ok(token) THEN Result("none", NoData)
    ELSE LET payload == token[1].jwt
         IN  IF "user_id" \notin payload.has \/ "email" \notin payload.has
             THEN Result("none", NoData)
             ELSE IF payload.uid_text
             THEN Result("raise", NoData)
             ELSE Result("data", TokenData([payload EXCEPT
                                   !.has = {"user_id", "email"}]))

verify_access_token(token) ==
    IF ~jwt_decode_ok(token) THEN Result("none", NoData)
    ELSE LET payload == token[1].jwt
         IN  IF "user_id" \notin payload.has \/ "email" \notin payload.has
             THEN Result("none", NoData)
             ELSE IF payload.uid_text
             THEN Result("raise", NoData)
             ELSE Result("data", TokenData(payload))

\* ------------------------------------------------------ middleware model
EXCLUDED_ROUTES == {
    <<"/", "h", "e", "a", "l", "t", "h">>,
    <<"/", "d", "o", "c", "s">>,
    <<"/", "o", "p", "e", "n", "a", "p", "i", ".", "j", "s", "o", "n">>,
    <<"/", "r", "e", "d", "o", "c">>,
    <<"/", "l", "o", "g", "i", "n">>,
    <<"/", "r", "e", "g", "i", "s", "t", "e", "r">>,
    <<"/", "a", "p", "i", "/", "v", "1", "/", "l", "o", "g", "i", "n">>,
    <<"/", "a", "p", "i", "/", "v", "1", "/", "r", "e", "g", "i", "s", "t", "e", "r">>}

_should_skip_exact_mutant(path) == path \in EXCLUDED_ROUTES

_should_skip_validation(path) ==
    \E r \in EXCLUDED_ROUTES : path = r \/ StartsWith(path, r \o <<"/">>)

BearerUpper == Str(<<"B", "e", "a", "r", "e", "r", " ">>)

BearerLower == Str(<<"b", "e", "a", "r", "e", "r", " ">>)

\* request.cookies.get("access_token") / Cookie(None)
NoCookie == [present |-> FALSE, value |-> <<>>]

Cookie(v) == [present |-> TRUE, value |-> v]

\* a selected token, or None
NoToken == [some |-> FALSE, token |-> <<>>]

Token(t) == [some |-> TRUE, token |-> t]

_extract_token(header, cookie) ==
    IF StartsWith(header, BearerUpper)
    THEN Token(Drop(header, 7))
    ELSE IF cookie.present /\ cookie.value # <<>>
    THEN IF StartsWith(cookie.value, BearerLower)
         THEN Token(Drop(cookie.value, 7))
         ELSE Token(cookie.value)
    ELSE NoToken

Status(valid, expired, invalid, has_exp, exp, email) ==
    [is_valid |-> valid, is_expired |-> expired, is_invalid |-> invalid,
     has_exp |-> has_exp, exp |-> exp, email |-> email]

_validate_token(token) ==
    IF ~WellFormed(token)
    THEN Status(FALSE, FALSE, TRUE, FALSE, 0, <<>>)
    ELSE LET unverified_payload == get_unverified_claims(token)
             exp_timestamp == unverified_payload.exp
         IN  IF /\ "exp" \in unverified_payload.has
                /\ exp_timestamp # 0
                /\ UtcNow > exp_timestamp * TicksPerSecond
             THEN Status(FALSE, TRUE, FALSE, TRUE, exp_timestamp,
                         IF "email" \in unverified_payload.has
                         THEN unverified_payload.email ELSE <<>>)
             ELSE IF ~jwt_decode_ok(token)
             THEN Status(FALSE, FALSE, TRUE, FALSE, 0, <<>>)
             ELSE Status(TRUE, FALSE, FALSE,
                         "exp" \in unverified_payload.has,
                         unverified_payload.exp,
                         IF "email" \in unverified_payload.has
                         THEN unverified_payload.email ELSE <<>>)

\* What a request got back.  status 0: no response object (the call
\* returned a value or raised something that is not an HTTP response).
Response(op, status, error_code, detail) ==
    [op |-> op, status |-> status, error_code |-> error_code,
     detail |-> detail, redirect_to |-> "", expired_at |-> 0,
     user_email |-> <<>>, next_calls |-> 0,
     result |-> Result("none", NoData), token |-> NoToken,
     path |-> <<>>, header |-> <<>>, cookie |-> NoCookie,
     access_token |-> <<>>, user_id |-> 0]

WithRequest(r, path, header, cookie) ==
    [r EXCEPT !.path = path, !.header = header, !.cookie = cookie]

\* call_next(request): the downstream handler answers 200
PassThrough(op) ==
    [Response(op, 200, "", "downstream") EXCEPT !.next_calls = 1]

dispatch(path, header, cookie) ==
    IF _should_skip_validation(path) THEN PassThrough("dispatch")
    ELSE LET token == _extract_token(header, cookie)
         IN  IF ~token.some THEN PassThrough("dispatch")
             ELSE LET token_status == _validate_token(token.token)
                  IN  IF token_status.is_expired
                      THEN [Response("dispatch", 401, "TOKEN_EXPIRED",
                                     "Token expired")
                              EXCEPT !.redirect_to = "/login",
                                     !.expired_at = token_status.exp,
                                     !.user_email = token_status.email,
                                     !.token = token]
                      ELSE IF token_status.is_invalid
                      THEN [Response("dispatch", 401, "INVALID_TOKEN",
                                     "Invalid token")
                              EXCEPT !.redirect_to = "/login",
                                     !.token = token]
                      ELSE [PassThrough("dispatch") EXCEPT !.token = token]

\* --------------------------------------------- authentication dependencies
LowerChar(c) ==
    CASE c = "B" -> "b" [] c = "E" -> "e" [] c = "A" -> "a"
      [] c = "R" -> "r" [] OTHER -> c

Lower(s) == [i \in 1..Len(s) |-> [s[i] EXCEPT !.c = LowerChar(s[i].c)]]

\* str.partition(" "): the index of the first space, 0 if there is none
FirstSpace(s) ==
    IF \E i \in 1..Len(s) : s[i] = Ch(" ")
    THEN CHOOSE i \in 1..Len(s) :
            s[i] = Ch(" ") /\ \A j \in 1..(i - 1) : s[j] # Ch(" ")
    ELSE 0

Scheme(s) == IF FirstSpace(s) = 0 THEN s ELSE SubSeq(s, 1, FirstSpace(s) - 1)

Param(s) == IF FirstSpace(s) = 0 THEN <<>> ELSE Drop(s, FirstSpace(s))

\* security_scheme = HTTPBearer(auto_error=False): the credentials, or None
HTTPBearer(header) ==
    IF header = <<>> \/ Scheme(header) = <<>> \/ Param(header) = <<>>
    THEN NoToken
    ELSE IF Lower(Scheme(header)) # Str(<<"b", "e", "a", "r", "e", "r">>)
    THEN NoToken
    ELSE Token(Param(header))

\* the token get_current_user and get_current_user_optional go on with
SelectToken(header, access_token) ==
    LET credentials == HTTPBearer(header)
    IN  IF credentials.some THEN credentials
        ELSE IF access_token.present
        THEN IF StartsWith(access_token.value, BearerLower)
             THEN Token(Drop(access_token.value, 7))
             ELSE Token(access_token.value)
        ELSE NoToken

get_current_user(header, access_token) ==
    LET token == SelectToken(header, access_token)
        token_data == verify_access_token(token.token)
    IN  IF ~token.some
        THEN [Response("get_current_user", 401, "", "Not authenticated")
                EXCEPT !.token = token]
        ELSE IF token_data.kind = "none"
        THEN [Response("get_current_user", 401, "",
                       "Invalid or expired token") EXCEPT !.token = token]
        ELSE [Response("get_current_user", 0, "", "")
                EXCEPT !.token = token, !.result = token_data]

get_current_user_optional(header, access_token) ==
    LET token == SelectToken(header, access_token)
    IN  IF ~token.some
        THEN [Response("get_current_user_optional", 0, "", "")
                EXCEPT !.token = token]
        ELSE [Response("get_current_user_optional", 0, "", "")
                EXCEPT !.token = token,
                       !.result = verify_access_token(token.token)]

\* ------------------------------------------------- token and request inputs
ClockStart == 2 * TicksPerSecond

\* claims payloads handed to create_access_token
Claims(has, text) ==
    [NoJwt EXCEPT !.has = has, !.user_id = 1, !.uid_text = text,
                  !.email = EmailA, !.rights = <<"READ", "EDIT">>,
                  !.groups = <<"ACTIVE_USER">>]

FullClaims == Claims({"user_id", "email", "rights", "groups"}, FALSE)

PlainClaims == Claims({"user_id", "email"}, FALSE)

NoUidClaims == Claims({"email"}, FALSE)

NoEmailClaims == Claims({"user_id"}, FALSE)

TextUidClaims == Claims({"user_id", "email"}, TRUE)

ClaimsInputs ==
    {FullClaims, PlainClaims, NoUidClaims, NoEmailClaims, TextUidClaims}

DeltaInputs ==
    {NoDelta, Delta(0 - TicksPerSecond), Delta(0 - 1), Delta(0), Delta(1),
     Delta(TicksPerSecond + 1)}

GarbageToken == Str(<<"x", ".", "y", ".", "z">>)

\* the same token with a signature that does not verify
Tamper(token) == <<Blob([token[1].jwt EXCEPT !.sig = "bad"])>>

NoMint == [token |-> <<>>, data |-> NoJwt, delta |-> NoDelta, at |-> 0]

\* ----------------------------------------------------------- mail service
\* `mail` is what the current request handed to the mail service: nothing,
\* or one login-code mail and what send_login_code_email returned for it.
NoMail == [called |-> FALSE, to |-> <<>>, code |-> "", sent |-> "false"]

\* settings.mail_username: empty when the SMTP credentials are not configured
MailUsernames == {"", "user"}

\* what FastMail.send_message does: delivers, or raises
SmtpOutcomes == {"ok", "raise"}

\* try: ... except Exception: return False
ReturnFalseOnException(outcome) ==
    IF outcome = "raise" THEN "false" ELSE outcome

send_email(mail_username, smtp) ==
    ReturnFalseOnException(
        IF mail_username = "" THEN "false"
        ELSE IF smtp = "raise" THEN "raise"
        ELSE "true")

send_login_code_email(mail_username, smtp) ==
    ReturnFalseOnException(send_email(mail_username, smtp))

\* ------------------------------------------------ concurrent verifications
\* `calls[i]` is worker i's verify_login_code call in progress: where it
\* stands, its arguments, the row it loaded and what it returned.
NoRow == [id |-> 0, email |-> <<>>, code |-> "", expires_at |-> 0,
          is_used |-> FALSE]

IdleCall == [pc |-> "idle", email |-> <<>>, code |-> "", row |-> NoRow,
             ret |-> "none"]

Workers == 1..MaxCalls

InitAside ==
    /\ removed = 0
    /\ mail = NoMail
    /\ calls = [i \in Workers |-> IdleCall]
    /\ requests = {}
    /\ posts = {}
    /\ accounts = <<>>
    /\ logged_out = {}

\* ------------------------------------------------------- token actions
TickJwt ==
    /\ now < ClockStart + MaxClock
    /\ now' = now + 1
    /\ resp' = Response("tick", 0, "", "")
    /\ UNCHANGED <<tz, users, login_codes, issued, last, tok, aside>>

\* create_access_token(data, expires_delta=delta)
Mint(data, delta) ==
    /\ tok' = [token |-> create_access_token(data, delta), data |-> data,
               delta |-> delta, at |-> UtcNow]
    /\ resp' = Response("create_access_token", 0, "", "")
    /\ UNCHANGED <<now, tz, users, login_codes, issued, last, aside>>

\* verify_access_token(token)
Verify(token) ==
    /\ resp' = [Response("verify_access_token", 0, "", "")
                  EXCEPT !.token = Token(token),
                         !.result = verify_access_token(token)]
    /\ UNCHANGED <<now, tz, users, login_codes, issued, last, tok, aside>>

InitJwt ==
    /\ now = ClockStart
    /\ tz = 0
    /\ users = {}
    /\ login_codes = {}
    /\ issued = NoIssue
    /\ last = Outcome("init", "none")
    /\ tok = NoMint
    /\ resp = Response("init", 0, "", "")
    /\ InitAside

NextToken ==
    \/ TickJwt
    \/ \E d \in ClaimsInputs, delta \in DeltaInputs : Mint(d, delta)
    \/ tok # NoMint /\ Verify(tok.token)
    \/ tok # NoMint /\ Verify(Tamper(tok.token))
    \/ \E t \in {GarbageToken, <<>>} : Verify(t)

SpecToken == InitJwt /\ [][NextToken]_vars

\* ------------------------------------------------------ request actions
\* The server takes one request at a time: a request is taken when the
\* previous response has been handed back.
Idle == resp.op \in {"init", "tick", "idle"}

Done ==
    /\ ~Idle
    /\ resp' = Response("idle", 0, "", "")
    /\ UNCHANGED <<now, tz, users, login_codes, issued, last, tok, aside>>

\* JWTValidationMiddleware.dispatch on one request
Dispatch(path, header, cookie) ==
    /\ Idle
    /\ resp' = WithRequest(dispatch(path, header, cookie),
                           path, header, cookie)
    /\ UNCHANGED <<now, tz, users, login_codes, issued, last, tok, aside>>

GetCurrentUser(header, cookie) ==
    /\ Idle
    /\ resp' = WithRequest(get_current_user(header, cookie),
                           <<>>, header, cookie)
    /\ UNCHANGED <<now, tz, users, login_codes, issued, last, tok, aside>>

GetCurrentUserOptional(header, cookie) ==
    /\ Idle
    /\ resp' = WithRequest(get_current_user_optional(header, cookie),
                           <<>>, header, cookie)
    /\ UNCHANGED <<now, tz, users, login_codes, issued, last, tok, aside>>

\* tokens a client may present: any payload shape, expiry and signature
ExpInputs == {0} \cup (1 .. Seconds(ClockStart + MaxClock) + 1)

SignedAs(claims, has_exp, exp, sig) ==
    <<Blob([claims EXCEPT !.sig = sig,
              !.has = IF has_exp THEN claims.has \cup {"exp"} ELSE claims.has,
              !.exp = exp])>>

RequestTokens ==
    {SignedAs(c, TRUE, e, sig) :
        c \in {FullClaims, NoUidClaims, TextUidClaims},
        e \in ExpInputs, sig \in {"ok", "bad"}}
    \cup {SignedAs(FullClaims, FALSE, 0, sig) : sig \in {"ok", "bad"}}
    \cup {GarbageToken, <<>>}

GoodToken ==
    SignedAs(FullClaims, TRUE, Seconds(ClockStart + MaxClock) + 1, "ok")

OldToken == SignedAs(FullClaims, TRUE, 1, "ok")

CookieTokens == {GoodToken, OldToken, GarbageToken}

HeaderInputs ==
    {<<>>, Str(<<"B", "a", "s", "i", "c", " ", "x">>)}
    \cup {BearerUpper \o t : t \in RequestTokens}
    \cup {BearerLower \o t : t \in {GoodToken, GarbageToken}}
    \cup {Str(<<"B", "E", "A", "R", "E", "R", " ">>) \o GoodToken}

CookieInputs ==
    {NoCookie, Cookie(<<>>)}
    \cup {Cookie(t) : t \in CookieTokens}
    \cup {Cookie(BearerLower \o t) : t \in CookieTokens}
    \cup {Cookie(BearerLower \o BearerLower \o GoodToken)}

\* the paths LoginController registers for the login-code flow
LoginCodeRoutes == {
    <<"/", "p", "a", "s", "s", "w", "o", "r", "d", "l", "e", "s", "s", "-",
      "l", "o", "g", "i", "n">>,
    <<"/", "v", "e", "r", "i", "f", "y", "-", "l", "o", "g", "i", "n", "-",
      "c", "o", "d", "e">>}

PathInputs == {
    <<"/", "h", "e", "a", "l", "t", "h">>,
    <<"/", "l", "o", "g", "i", "n", "/", "x">>,
    <<"/", "l", "o", "g", "i", "n", "x">>,
    <<"/", "a", "p", "i", "/", "v", "1", "/", "l", "o", "g", "i", "n">>,
    <<"/", "a", "p", "i", "/", "v", "1", "/", "p", "o", "s", "t">>,
    <<"/", "d", "o", "c", "s", "/">>}
    \cup LoginCodeRoutes

NextRequest ==
    \/ TickJwt
    \/ Done
    \/ \E p \in PathInputs, h \in HeaderInputs, c \in CookieInputs :
         Dispatch(p, h, c)
    \/ \E h \in HeaderInputs, c \in CookieInputs : GetCurrentUser(h, c)
    \/ \E h \in HeaderInputs, c \in CookieInputs :
         GetCurrentUserOptional(h, c)

SpecRequest == InitJwt /\ [][NextRequest]_vars

\* --------------------------------------- verify_login_code, step by step
\* Each worker process runs verify_login_code on the shared database; the
\* statements of two calls interleave.
BeginVerify(i, email, code) ==
    /\ calls[i].pc = "idle"
    /\ calls' = [calls EXCEPT ![i] = [IdleCall EXCEPT !.pc = "lookup",
                                         !.email = email, !.code = code]]
    /\ UNCHANGED <<now, tz, users, login_codes, last>>

\* get_active_code(email, code)
LookUp(i) ==
    /\ calls[i].pc = "lookup"
    /\ LET active == get_active_code(calls[i].email, calls[i].code)
       IN  calls' =
             IF calls[i].email = <<>> \/ calls[i].code = "" \/ active = {}
             THEN [calls EXCEPT ![i].pc = "done", ![i].ret = "none"]
             ELSE [calls EXCEPT ![i].pc = "check",
                                ![i].row = CHOOSE r \in active : TRUE]
    /\ UNCHANGED <<now, tz, users, login_codes, last>>

\* user_repo.get_by_email(email)
CheckUser(i) ==
    /\ calls[i].pc = "check"
    /\ calls' = IF get_by_email(calls[i].email) = {}
                THEN [calls EXCEPT ![i].pc = "done", ![i].ret = "raise"]
                ELSE [calls EXCEPT ![i].pc = "write"]
    /\ UNCHANGED <<now, tz, users, login_codes, last>>

\* mark_as_used(login_code): is_used = True on the loaded object, then an
\* UPDATE of the row with its id, and the identity is returned
WriteUsed(i) ==
    /\ calls[i].pc = "write"
    /\ login_codes' =
         {IF r.id = calls[i].row.id THEN [r EXCEPT !.is_used = TRUE] ELSE r :
             r \in login_codes}
    /\ calls' = [calls EXCEPT ![i].pc = "done", ![i].ret = "identity"]
    /\ UNCHANGED <<now, tz, users, last>>

\* the call has handed its result back
ReturnVerify(i) ==
    /\ calls[i].pc = "done"
    /\ calls' = [calls EXCEPT ![i] = IdleCall]
    /\ UNCHANGED <<now, tz, users, login_codes, last>>

\* -------------------------------------------------- requests and sessions
\* `requests` holds the HTTP requests in flight: the request's id, the
\* router that serves it, the database session its handler works on and
\* whether the handler has run.  A session is named after what created it:
\* the startup code (setup_posts_router, once per process) or the request
\* whose dependency opened it.
StartupSession == [created_for |-> "startup", request |-> 0]

RequestSession(n) == [created_for |-> "request", request |-> n]

RequestIds == 1..MaxRequests

InFlight(n) == \E r \in requests : r.id = n

\* a request to a post endpoint: the handler is a closure over the
\* controller's service, whose repository holds the session made at startup
BeginPostRequest(n) ==
    /\ ~InFlight(n)
    /\ requests' = requests \cup
         {[id |-> n, router |-> "posts", session |-> StartupSession,
           handled |-> FALSE]}

\* a request to a login endpoint: Depends(get_session) opens a session for
\* the request, as get_db_session does (`with Session(engine) as session`)
BeginLoginRequest(n) ==
    /\ ~InFlight(n)
    /\ requests' = requests \cup
         {[id |-> n, router |-> "login", session |-> RequestSession(n),
           handled |-> FALSE]}

\* the handler runs its repository calls on the request's session
HandleRequest(n) ==
    \E r \in requests :
        /\ r.id = n
        /\ ~r.handled
        /\ requests' = (requests \ {r}) \cup {[r EXCEPT !.handled = TRUE]}

\* the response is sent; a session opened by the dependency is closed, the
\* startup session stays open
EndRequest(n) ==
    \E r \in requests :
        /\ r.id = n
        /\ r.handled
        /\ requests' = requests \ {r}

\* ------------------------------------------------------ generic repository
\* A post row is a record over PostFields.  An entity handed to the
\* repository is its field values together with the set of fields that were
\* given when it was built (pydantic's fields-set); the other fields carry
\* the model's defaults.  id 0 stands for None.
PostFields == {"id", "title", "content", "state"}

PostDefaults ==
    [id |-> 0, title |-> "Post Title", content |-> "", state |-> "draft"]

\* Post(**given)
Entity(given) ==
    [set |-> DOMAIN given,
     val |-> [f \in PostFields |->
                IF f \in DOMAIN given THEN given[f] ELSE PostDefaults[f]]]

NoPost == [id |-> 0, title |-> "", content |-> "", state |-> ""]

Returned(op, ret, row) == [op |-> op, ret |-> ret, row |-> row]

\* BaseRepository.read: session.get(model_class, entity_id)
read(rows, entity_id) == {r \in rows : r.id = entity_id}

model_dump_all_mutant(entity_data) == PostFields

\* entity_data.model_dump(exclude_unset=True, exclude={"id"}): its keys
model_dump(entity_data) == entity_data.set \ {"id"}

\* BaseRepository.update: the table afterwards and what is returned
update(rows, entity_id, entity_data) ==
    IF read(rows, entity_id) = {}
    THEN [rows |-> rows, ret |-> "none", row |-> NoPost]
    ELSE LET existing_entity == CHOOSE r \in read(rows, entity_id) : TRUE
             update_data == model_dump(entity_data)
             merged == [f \in PostFields |->
                          IF f \in update_data THEN entity_data.val[f]
                          ELSE existing_entity[f]]
         IN  [rows |-> (rows \ {existing_entity}) \cup {merged},
              ret |-> "row", row |-> merged]

\* BaseService.dto_to_entity: entity_class(**dto.model_dump()) hands over
\* every field of the DTO, so every field counts as set
dto_to_entity(dto) == Entity(dto)

\* BaseRepository.create with an entity that has no id yet
CreatePost(entity) ==
    /\ Cardinality(posts) < MaxPosts
    /\ LET row == [entity.val EXCEPT !.id = NextId(posts)]
       IN  /\ posts' = posts \cup {row}
           /\ last' = Returned("create", "row", row)

\* BaseRepository.update
UpdatePost(entity_id, entity_data) ==
    LET done == update(posts, entity_id, entity_data)
    IN  /\ posts' = done.rows
        /\ last' = Returned("update", done.ret, done.row)

\* BaseService.update
ServiceUpdate(entity_id, dto) ==
    LET done == update(posts, entity_id, dto_to_entity(dto))
    IN  /\ posts' = done.rows
        /\ last' = Returned("service_update", done.ret, done.row)

\* BaseRepository.delete
DeletePost(entity_id) ==
    /\ posts' = posts \ read(posts, entity_id)
    /\ last' = Returned("delete",
                        IF read(posts, entity_id) = {} THEN "false"
                        ELSE "true", NoPost)

\* ids a caller may name: the rows' ids and one that never exists
PostIds == 1..(MaxPosts + 1)

Titles == {"t1", "t2"}

\* which fields a caller gives: none, one, some with an id, all
GivenInputs ==
    {{}, {"title"}, {"id", "title"}, {"content", "state"}, PostFields}

\* entities as callers build them
PostInputs ==
    {Entity([f \in fs |->
               CASE f = "id" -> MaxPosts + 1
                 [] f = "title" -> t
                 [] f = "content" -> "c1"
                 [] OTHER -> "published"]) :
        fs \in GivenInputs, t \in Titles}

\* request bodies (PostDto): every field has a value
DtoInputs ==
    {[id |-> i, title |-> t, content |-> "", state |-> "draft"] :
        i \in {0, MaxPosts + 1}, t \in Titles}

\* ------------------------------------------------------- login endpoints
\* pydantic's EmailStr on the request body: one "@" with a local part before
\* it and a domain after it (a domain letter stands for a whole domain
\* name).  A body that fails is answered 422 before the handler runs.
EmailStr(email) ==
    \E i \in 2..(Len(email) - 1) :
        /\ email[i] = "@"
        /\ \A j \in 1..Len(email) : (email[j] = "@") => (j = i)

EmailNoDomain == <<"a", "@">>

\* settings.login_code_expiry_minutes (15 minutes by default), in ticks
LoginCodeExpiry == 1

PasswordlessLogin_known_only_mutant(email, code, mail_username, smtp) ==
    IF EmailStr(email) /\ get_by_email(email) = {}
    THEN /\ resp' = Response("passwordless_login", 404, "", "User not found")
         /\ last' = Outcome("not_called", "none")
         /\ mail' = NoMail
         /\ UNCHANGED <<now, tz, users, login_codes>>
    ELSE
    IF ~EmailStr(email)
    THEN /\ resp' = Response("passwordless_login", 422, "",
                             "validation error")
         /\ last' = Outcome("not_called", "none")
         /\ mail' = NoMail
         /\ UNCHANGED <<now, tz, users, login_codes>>
    ELSE /\ CreateLoginCode(email, LoginCodeExpiry, code)
         /\ LET sent == send_login_code_email(mail_username, smtp)
            IN  IF last'.ret = "raise"
                THEN /\ mail' = NoMail
                     /\ resp' = Response("passwordless_login", 400, "",
                                         "Invalid email address")
                ELSE /\ mail' = [called |-> TRUE, to |-> email,
                                 code |-> code, sent |-> sent]
                     /\ resp' =
                          IF sent = "raise"
                          THEN Response("passwordless_login", 500, "",
                                        "Failed to process login request")
                          ELSE [Response("passwordless_login", 200, "",
                                         "Login code sent")
                                  EXCEPT !.user_email = email]

\* LoginController.passwordless_login: POST /passwordless-login
PasswordlessLogin(email, code, mail_username, smtp) ==
    IF ~EmailStr(email)
    THEN /\ resp' = Response("passwordless_login", 422, "",
                             "validation error")
         /\ last' = Outcome("not_called", "none")
         /\ mail' = NoMail
         /\ UNCHANGED <<now, tz, users, login_codes>>
    ELSE /\ CreateLoginCode(email, LoginCodeExpiry, code)
         /\ LET sent == send_login_code_email(mail_username, smtp)
            IN  IF last'.ret = "raise"
                THEN /\ mail' = NoMail
                     /\ resp' = Response("passwordless_login", 400, "",
                                         "Invalid email address")
                ELSE /\ mail' = [called |-> TRUE, to |-> email,
                                 code |-> code, sent |-> sent]
                     /\ resp' =
                          IF sent = "raise"
                          THEN Response("passwordless_login", 500, "",
                                        "Failed to process login request")
                          ELSE [Response("passwordless_login", 200, "",
                                         "Login code sent")
                                  EXCEPT !.user_email = email]

\* LoginController.verify_login_code: POST /verify-login-code.  After a
\* successful verification the handler calls user_repo.get_by_id, which
\* UserRepository does not define: the AttributeError is answered 500.
VerifyLoginCodeRequest(email, code) ==
    IF ~EmailStr(email)
    THEN /\ resp' = Response("verify_login_code", 422, "",
                             "validation error")
         /\ last' = Outcome("not_called", "none")
         /\ mail' = NoMail
         /\ UNCHANGED <<now, tz, users, login_codes>>
    ELSE /\ VerifyLoginCode(email, code)
         /\ mail' = NoMail
         /\ resp' =
              IF last'.ret = "none"
              THEN Response("verify_login_code", 401, "",
                            "Invalid or expired login code")
              ELSE IF last'.ret = "raise"
              THEN [Response("verify_login_code", 400, "",
                             "User not found: email")
                      EXCEPT !.user_email = email]
              ELSE Response("verify_login_code", 500, "",
                            "Failed to verify login code")

\* ------------------------------------------------------ account endpoints
\* `users` holds the identity columns and the state of the user rows;
\* `accounts[id]` holds the other columns of row id that the endpoints
\* write: password_hash, changed_at and last_login (0 for None).
\* bcrypt: the hash is kept as the password it was made from; the random
\* salt is left out, checkpw succeeds exactly for that password.
hash_password(password) == <<"bcrypt", password>>

verify_password(password, password_hash) ==
    password_hash = hash_password(password)

get_active_by_email_any_state_mutant(email) == get_by_email(email)

get_active_by_email(email) ==
    LET m == {u \in users : u.email = email /\ u.state = "ACTIVE"}
    IN  IF m = {} THEN {} ELSE {CHOOSE u \in m : \A v \in m : u.id <= v.id}

\* LoginController.register with a DTO that passed validation:
\* POST /register
Register(email, dn, password) ==
    /\ CreateUser(email, dn)
    /\ accounts' =
         IF last'.ret = "ok"
         THEN accounts @@ (NextId(users) :>
                  [password_hash |-> hash_password(password),
                   changed_at |-> UtcNow, last_login |-> 0])
         ELSE accounts
    /\ resp' = IF last'.ret = "ok"
               THEN [Response("register", 201, "", "")
                       EXCEPT !.user_email = email]
               ELSE Response("register", 400, "", "already exists")

\* LoginController.login: POST /login, with UserService.authenticate_user
Login(email, password) ==
    LET found == get_active_by_email(email)
        user == CHOOSE u \in found : TRUE
        token_data == [FullClaims EXCEPT !.user_id = user.id,
                                         !.email = user.email]
        expires_delta == Delta(30 * 60 * TicksPerSecond)
        access_token == create_access_token(token_data, expires_delta)
    IN  IF found = {}
           \/ ~verify_password(password, accounts[user.id].password_hash)
        THEN /\ resp' = [Response("login", 401, "",
                                  "Invalid email or password")
                           EXCEPT !.user_email = email]
             /\ UNCHANGED <<now, tz, users, login_codes, tok, accounts>>
        ELSE /\ accounts' = [accounts EXCEPT ![user.id].last_login = UtcNow]
             /\ tok' = [token |-> access_token, data |-> token_data,
                        delta |-> expires_delta, at |-> UtcNow]
             /\ resp' = [Response("login", 200, "", "")
                           EXCEPT !.user_email = user.email,
                                  !.access_token = access_token]
             /\ UNCHANGED <<now, tz, users, login_codes>>

ResetPassword_any_user_mutant(user_id, new_password, header, cookie) ==
    \E current_user \in {get_current_user(header, cookie)} :
    \E answer \in {[(IF current_user.status = 401
                     THEN Response("reset_password", 401, "",
                                   current_user.detail)
                     ELSE IF current_user.result.kind = "raise"
                     THEN Response("reset_password", 500, "",
                                   "Internal Server Error")
                     ELSE IF read(users, user_id) = {}
                     THEN Response("reset_password", 404, "",
                                   "User not found")
                     ELSE Response("reset_password", 200, "", ""))
                      EXCEPT !.result = current_user.result,
                             !.user_id = user_id]} :
        /\ resp' = answer
        /\ accounts' =
             IF answer.status = 200
             THEN [accounts EXCEPT
                     ![user_id].password_hash = hash_password(new_password),
                     ![user_id].changed_at = UtcNow]
             ELSE accounts
        /\ UNCHANGED <<now, tz, users, login_codes, tok>>

\* LoginController.reset_password: POST /reset-password, with
\* UserService.reset_password.  The answer records the request's user_id
\* and what the get_current_user dependency returned.
ResetPassword(user_id, new_password, header, cookie) ==
    \E current_user \in {get_current_user(header, cookie)} :
    \E answer \in {[(IF current_user.status = 401
                     THEN Response("reset_password", 401, "",
                                   current_user.detail)
                     ELSE IF current_user.result.kind = "raise"
                     THEN Response("reset_password", 500, "",
                                   "Internal Server Error")
                     ELSE IF current_user.result.data.user_id # user_id
                     THEN Response("reset_password", 403, "",
                                   "You can only reset your own password")
                     ELSE IF read(users, user_id) = {}
                     THEN Response("reset_password", 404, "",
                                   "User not found")
                     ELSE Response("reset_password", 200, "", ""))
                      EXCEPT !.result = current_user.result,
                             !.user_id = user_id]} :
        /\ resp' = answer
        /\ accounts' =
             IF answer.status = 200
             THEN [accounts EXCEPT
                     ![user_id].password_hash = hash_password(new_password),
                     ![user_id].changed_at = UtcNow]
             ELSE accounts
        /\ UNCHANGED <<now, tz, users, login_codes, tok>>

\* LoginController.deactivate: POST /deactivate, with
\* UserService.deactivate_user
Deactivate(user_id, header, cookie) ==
    \E current_user \in {get_current_user(header, cookie)} :
    \E answer \in {[(IF current_user.status = 401
                     THEN Response("deactivate", 401, "",
                                   current_user.detail)
                     ELSE IF current_user.result.kind = "raise"
                     THEN Response("deactivate", 500, "",
                                   "Internal Server Error")
                     ELSE IF current_user.result.data.user_id # user_id
                     THEN Response("deactivate", 403, "",
                                   "You can only deactivate your own account")
                     ELSE IF read(users, user_id) = {}
                     THEN Response("deactivate", 404, "", "User not found")
                     ELSE Response("deactivate", 200, "", ""))
                      EXCEPT !.result = current_user.result,
                             !.user_id = user_id]} :
        /\ resp' = answer
        /\ users' =
             IF answer.status = 200
             THEN {IF u.id = user_id THEN [u EXCEPT !.state = "INACTIVE"]
                   ELSE u : u \in users}
             ELSE users
        /\ accounts' =
             IF answer.status = 200
             THEN [accounts EXCEPT ![user_id].changed_at = UtcNow]
             ELSE accounts
        /\ UNCHANGED <<now, tz, login_codes, tok>>

\* LoginController.logout: POST /logout.  The handler deletes the
\* access_token cookie at the client; `logged_out` collects the tokens that
\* were presented at a successful logout.
Logout(header, cookie) ==
    \E current_user \in {get_current_user(header, cookie)} :
        /\ resp' =
             [(IF current_user.status = 401
               THEN Response("logout", 401, "", current_user.detail)
               ELSE IF current_user.result.kind = "raise"
               THEN Response("logout", 500, "", "Internal Server Error")
               ELSE Response("logout", 200, "", "Successfully logged out"))
                EXCEPT !.result = current_user.result,
                       !.token = current_user.token]
        /\ logged_out' =
             IF current_user.status = 0 /\ current_user.result.kind = "data"
             THEN logged_out \cup {current_user.token.token}
             ELSE logged_out
        /\ UNCHANGED <<now, tz, users, login_codes, tok, accounts>>

\* ------------------------------------------------------- specifications
InitCodes ==
    /\ now = 0
    /\ tz \in TzOffsets
    /\ users = {}
    /\ login_codes = {}
    /\ issued = NoIssue
    /\ last = Outcome("init", "none")
    /\ tok = NoMint
    /\ resp = Response("init", 0, "", "")
    /\ InitAside

\* The service calls of the login-code flow, in any order, with time passing.
NextCodes ==
    \/ Tick /\ UNCHANGED <<issued, tok, resp, aside>>
    \/ \E e \in Registrants :
         CreateUser(e, DnOf(e)) /\ UNCHANGED <<issued, tok, resp, aside>>
    \/ \E e \in EmailInputs, ttl \in TTLs, c \in Codes :
         CreateLoginCode(e, ttl, c) /\ UNCHANGED <<issued, tok, resp, aside>>
    \/ \E e \in EmailInputs, c \in CodeInputs :
         VerifyLoginCode(e, c) /\ UNCHANGED <<issued, tok, resp, aside>>

SpecCodes == InitCodes /\ [][NextCodes]_vars

\* The same calls, following the most recently issued code in `issued`.
TrackIssue ==
    issued' = IF last'.ret = "ok"
              THEN [id |-> CHOOSE i \in {r.id : r \in login_codes'} :
                              \A r \in login_codes' : r.id <= i,
                    tried |-> FALSE, won |-> FALSE]
              ELSE issued

TrackVerify(email, code) ==
    issued' = IF IsIssued(email, code)
              THEN [issued EXCEPT !.tried = TRUE,
                       !.won = issued.won \/ last'.ret = "identity"]
              ELSE issued

NextOneTime ==
    \/ Tick /\ UNCHANGED <<issued, tok, resp, aside>>
    \/ \E e \in Registrants :
         CreateUser(e, DnOf(e)) /\ UNCHANGED <<issued, tok, resp, aside>>
    \/ \E e \in Emails, ttl \in TTLs, c \in Codes :
         CreateLoginCode(e, ttl, c) /\ TrackIssue /\ UNCHANGED <<tok, resp, aside>>
    \/ \E e \in Emails, c \in Codes :
         VerifyLoginCode(e, c) /\ TrackVerify(e, c) /\ UNCHANGED <<tok, resp, aside>>

SpecOneTime == InitCodes /\ [][NextOneTime]_vars

\* The count delete_expired_codes handed back to create_login_code.
TrackRemoved(email) ==
    removed' = IF last'.ret = "ok"
               THEN Cardinality(ExpiredRows(login_codes, email))
               ELSE removed

\* The login-code calls together with the repository's purge.
NextPurge ==
    \/ Tick /\ UNCHANGED <<issued, tok, resp, aside>>
    \/ \E e \in Registrants :
         CreateUser(e, DnOf(e)) /\ UNCHANGED <<issued, tok, resp, aside>>
    \/ \E e \in Emails, ttl \in TTLs, c \in Codes :
         /\ CreateLoginCode(e, ttl, c)
         /\ TrackRemoved(e)
         /\ UNCHANGED <<issued, tok, resp, mail, calls, requests, posts,
                        accounts, logged_out>>
    \/ \E e \in Emails, c \in Codes :
         VerifyLoginCode(e, c) /\ UNCHANGED <<issued, tok, resp, aside>>
    \/ \E e \in Emails \cup {EmailEmpty} :
         /\ DeleteExpiredCodes(e)
         /\ UNCHANGED <<issued, tok, resp, mail, calls, requests, posts,
                        accounts, logged_out>>

SpecPurge == InitCodes /\ [][NextPurge]_vars

\* The two login endpoints, with users signing up and time passing.
LoginEmails == Emails \cup {EmailNoAt, EmailEmpty, EmailNoDomain}

NextLogin ==
    \/ Tick /\ UNCHANGED <<issued, tok, resp, aside>>
    \/ \E e \in Registrants :
         CreateUser(e, DnOf(e)) /\ UNCHANGED <<issued, tok, resp, aside>>
    \/ \E e \in LoginEmails, c \in Codes,
          u \in MailUsernames, s \in SmtpOutcomes :
         /\ PasswordlessLogin(e, c, u, s)
         /\ UNCHANGED <<issued, tok, removed, calls, requests, posts,
                        accounts, logged_out>>
    \/ \E e \in LoginEmails, c \in CodeInputs :
         /\ VerifyLoginCodeRequest(e, c)
         /\ UNCHANGED <<issued, tok, removed, calls, requests, posts,
                        accounts, logged_out>>

SpecLogin == InitCodes /\ [][NextLogin]_vars

\* Requests for a login code alone, from clients with and without an
\* account, with users signing up and time passing.  The endpoint reads the
\* UTC clock only, so the server's local offset is left at zero.
NextCodeRequest ==
    \/ Tick /\ UNCHANGED <<issued, tok, resp, aside>>
    \/ \E e \in Registrants :
         CreateUser(e, DnOf(e)) /\ UNCHANGED <<issued, tok, resp, aside>>
    \/ \E e \in Emails \cup {EmailNoAt}, c \in Codes,
          u \in MailUsernames, s \in SmtpOutcomes :
         /\ PasswordlessLogin(e, c, u, s)
         /\ UNCHANGED <<issued, tok, removed, calls, requests, posts,
                        accounts, logged_out>>

\* empty stores, with the server's local time equal to UTC
InitCodeRequest == InitCodes /\ tz = 0

SpecCodeRequest == InitCodeRequest /\ [][NextCodeRequest]_vars

\* Sign-up, both login flows and deactivation within one instant: clients
\* register with any of the emails and display names, log in with a right
\* or a wrong password, deactivate their account with the token of the
\* latest login, and request and verify login codes.
NextUsers ==
    \/ \E e \in Emails, d \in Emails :
         /\ Register(e, DnOf(d), "Secret1!")
         /\ UNCHANGED <<issued, tok, removed, mail, calls, requests, posts,
                        logged_out>>
    \/ \E e \in Emails, p \in {"Secret1!", "Other2#x"} :
         /\ Login(e, p)
         /\ UNCHANGED <<issued, last, removed, mail, calls, requests, posts,
                        logged_out>>
    \/ \E user_id \in 1..Cardinality(Emails) :
         /\ Deactivate(user_id, BearerUpper \o tok.token, NoCookie)
         /\ UNCHANGED <<issued, last, removed, mail, calls, requests, posts,
                        logged_out>>
    \/ \E e \in Registrants, c \in Codes :
         /\ PasswordlessLogin(e, c, "user", "ok")
         /\ UNCHANGED <<issued, tok, removed, calls, requests, posts,
                        accounts, logged_out>>
    \/ \E e \in Registrants, c \in Codes :
         /\ VerifyLoginCodeRequest(e, c)
         /\ UNCHANGED <<issued, tok, removed, calls, requests, posts,
                        accounts, logged_out>>

SpecUsers == InitJwt /\ [][NextUsers]_vars

\* The protected account endpoints within one instant: two clients
\* register and log in with a password, and call the endpoints with the
\* token of the latest login (none before the first login) or with a token
\* they logged out with, in the Authorization header, in the access_token
\* cookie, in both or in neither.
NextAccounts ==
    \/ \E e \in Emails :
         /\ Register(e, DnOf(e), "Secret1!")
         /\ UNCHANGED <<issued, tok, removed, mail, calls, requests, posts,
                        logged_out>>
    \/ \E e \in Emails, p \in {"Secret1!", "Other2#x"} :
         /\ Login(e, p)
         /\ UNCHANGED <<issued, last, removed, mail, calls, requests, posts,
                        logged_out>>
    \/ \E t \in {tok.token} \cup logged_out,
          user_id \in 1..Cardinality(Emails),
          p \in {"Secret1!", "Other2#x"} :
         \E header \in {<<>>, BearerUpper \o t},
            cookie \in {NoCookie, Cookie(BearerLower \o t)} :
            /\ ResetPassword(user_id, p, header, cookie)
            /\ UNCHANGED <<issued, last, removed, mail, calls, requests,
                           posts, logged_out>>
    \/ \E t \in {tok.token} \cup logged_out,
          user_id \in 1..Cardinality(Emails) :
         \E header \in {<<>>, BearerUpper \o t},
            cookie \in {NoCookie, Cookie(BearerLower \o t)} :
            /\ Deactivate(user_id, header, cookie)
            /\ UNCHANGED <<issued, last, removed, mail, calls, requests,
                           posts, logged_out>>
    \/ \E t \in {tok.token} \cup logged_out :
         \E header \in {<<>>, BearerUpper \o t},
            cookie \in {NoCookie, Cookie(BearerLower \o t)} :
            /\ Logout(header, cookie)
            /\ UNCHANGED <<issued, last, removed, mail, calls, requests,
                           posts>>

SpecAccounts == InitJwt /\ [][NextAccounts]_vars

\* Verifications running in several workers at once.
NextRace ==
    \/ \E e \in Registrants :
         CreateUser(e, DnOf(e)) /\ UNCHANGED <<issued, tok, resp, aside>>
    \/ \E e \in Registrants, ttl \in TTLs, c \in Codes :
         CreateLoginCode(e, ttl, c) /\ UNCHANGED <<issued, tok, resp, aside>>
    \/ \E i \in Workers, e \in Registrants, c \in Codes :
         /\ BeginVerify(i, e, c)
         /\ UNCHANGED <<issued, tok, resp, removed, mail, requests, posts,
                        accounts, logged_out>>
    \/ \E i \in Workers :
         /\ LookUp(i)
         /\ UNCHANGED <<issued, tok, resp, removed, mail, requests, posts,
                        accounts, logged_out>>
    \/ \E i \in Workers :
         /\ CheckUser(i)
         /\ UNCHANGED <<issued, tok, resp, removed, mail, requests, posts,
                        accounts, logged_out>>
    \/ \E i \in Workers :
         /\ WriteUsed(i)
         /\ UNCHANGED <<issued, tok, resp, removed, mail, requests, posts,
                        accounts, logged_out>>
    \/ \E i \in Workers :
         /\ ReturnVerify(i)
         /\ UNCHANGED <<issued, tok, resp, removed, mail, requests, posts,
                        accounts, logged_out>>

SpecRace == InitCodes /\ [][NextRace]_vars

\* Requests to the post and login routers arriving, running and ending.
NextSession ==
    \/ \E n \in RequestIds :
         /\ BeginPostRequest(n)
         /\ UNCHANGED <<now, tz, users, login_codes, issued, last, tok, resp,
                        removed, mail, calls, posts, accounts, logged_out>>
    \/ \E n \in RequestIds :
         /\ BeginLoginRequest(n)
         /\ UNCHANGED <<now, tz, users, login_codes, issued, last, tok, resp,
                        removed, mail, calls, posts, accounts, logged_out>>
    \/ \E n \in RequestIds :
         /\ HandleRequest(n)
         /\ UNCHANGED <<now, tz, users, login_codes, issued, last, tok, resp,
                        removed, mail, calls, posts, accounts, logged_out>>
    \/ \E n \in RequestIds :
         /\ EndRequest(n)
         /\ UNCHANGED <<now, tz, users, login_codes, issued, last, tok, resp,
                        removed, mail, calls, posts, accounts, logged_out>>

SpecSession == InitJwt /\ [][NextSession]_vars

\* Calls on the posts repository and service.
NextPosts ==
    \/ \E e \in PostInputs :
         /\ "id" \notin e.set
         /\ CreatePost(e)
         /\ UNCHANGED <<now, tz, users, login_codes, issued, tok, resp,
                        removed, mail, calls, requests,
                        accounts, logged_out>>
    \/ \E i \in PostIds, e \in PostInputs :
         /\ UpdatePost(i, e)
         /\ UNCHANGED <<now, tz, users, login_codes, issued, tok, resp,
                        removed, mail, calls, requests,
                        accounts, logged_out>>
    \/ \E i \in PostIds, d \in DtoInputs :
         /\ ServiceUpdate(i, d)
         /\ UNCHANGED <<now, tz, users, login_codes, issued, tok, resp,
                        removed, mail, calls, requests,
                        accounts, logged_out>>
    \/ \E i \in PostIds :
         /\ DeletePost(i)
         /\ UNCHANGED <<now, tz, users, login_codes, issued, tok, resp,
                        removed, mail, calls, requests,
                        accounts, logged_out>>

SpecPosts == InitJwt /\ [][NextPosts]_vars

\* ------------------------------------------------------------- claims

\* C1 (as stated): one-time use.  After create_login_code issued code C for
\* an email with a user account, the first verify_login_code(email, C) made
\* before the code expires returns the identity of the user with that
\* email, and every verify_login_code(email, C) after the successful one
\* returns None, as long as C is not issued again for the email.
C1_OneTimeUse ==
    [][\A e \in Emails, c \in Codes :
         (IsIssued(e, c) /\ VerifyLoginCode(e, c)) =>
            /\ ( /\ ~issued.tried
                 /\ \A r \in IssuedRow : UtcNow < r.expires_at
                 /\ get_by_email(e) # {} )
                  => (last'.ret = "identity" /\
                      \A u \in Identity(e) : u.email = e)
            /\ issued.won => last'.ret = "none"]_vars

C3_Case ==
    /\ resp.op = "verify_access_token"
    /\ tok # NoMint
    /\ resp.token = Token(tok.token)
    /\ {"user_id", "email"} \subseteq tok.data.has
    /\ ~tok.data.uid_text
    /\ tok.delta.given /\ tok.delta.ticks > 0
    /\ UtcNow < tok.at + tok.delta.ticks

C4_NonPositiveTtlRejected ==
    ( /\ resp.op = "verify_access_token"
      /\ tok # NoMint
      /\ resp.token = Token(tok.token)
      /\ tok.delta.given /\ tok.delta.ticks <= 0 )
        => resp.result.kind # "data"

\* C5 (as stated): verify_access_token fails closed.  It returns token data
\* exactly when the signature verifies, the token is unexpired and user_id
\* and email are both present, returns None otherwise, and never raises.
C5_FailsClosed ==
    resp.op = "verify_access_token" =>
        LET t == resp.token.token
            good == /\ Len(t) = 1
                    /\ t[1].jwt.sig = "ok"
                    /\ ("exp" \in t[1].jwt.has) =>
                           (t[1].jwt.exp >= Seconds(UtcNow))
                    /\ {"user_id", "email"} \subseteq t[1].jwt.has
        IN  /\ resp.result.kind # "raise"
            /\ (resp.result.kind = "data") <=> good
            /\ (~good) => (resp.result = Result("none", NoData))

\* The request was checked by the middleware and carried a token whose
\* payload can be read.
Checked ==
    /\ resp.op = "dispatch"
    /\ resp.token.some

Readable == Len(resp.token.token) = 1 /\ resp.token.token[1].jwt.sig # "none"

Peeked == resp.token.token[1].jwt

\* C6 (as stated): for a request on a non-excluded path that carries a
\* token, the middleware answers 401 TOKEN_EXPIRED (with redirect_to
\* "/login", expired_at = the token's exp, user_email = the token's email,
\* and without calling the downstream handler) exactly when the current
\* time is strictly greater than the token's exp.
C6_ExpiredExactlyWhenPastExp ==
    (Checked /\ Readable /\ "exp" \in Peeked.has) =>
        /\ (resp.status = 401 /\ resp.error_code = "TOKEN_EXPIRED")
              <=> (UtcNow > Peeked.exp * TicksPerSecond)
        /\ (resp.error_code = "TOKEN_EXPIRED") =>
              ( /\ resp.redirect_to = "/login"
                /\ resp.expired_at = Peeked.exp
                /\ resp.user_email = Peeked.email
                /\ resp.next_calls = 0 )

\* C7 (as stated): a malformed or tampered token on a non-excluded path is
\* answered 401 INVALID_TOKEN with redirect_to "/login", never reported as
\* TOKEN_EXPIRED and never passed through.
C7_TamperedIsInvalid ==
    (Checked /\ (~Readable \/ Peeked.sig = "bad")) =>
        /\ resp.status = 401
        /\ resp.error_code = "INVALID_TOKEN"
        /\ resp.redirect_to = "/login"
        /\ resp.next_calls = 0

\* The path is on the exclusion list: equal to an excluded route, or an
\* excluded route followed by "/".
OnExclusionList(path) ==
    \E r \in EXCLUDED_ROUTES :
        \/ path = r
        \/ /\ Len(path) > Len(r)
           /\ SubSeq(path, 1, Len(r)) = r
           /\ path[Len(r) + 1] = "/"

\* The request carries a token: a "Bearer " Authorization header or a
\* non-empty access_token cookie.
CarriesToken(header, cookie) ==
    \/ Len(header) >= 7 /\ SubSeq(header, 1, 7) = BearerUpper
    \/ cookie.present /\ Len(cookie.value) > 0

\* C8: the middleware calls the downstream handler exactly once and hands
\* back its response whenever the path is on the exclusion list (whatever
\* token the request carries) and whenever the request carries no token; it
\* answers 401, without calling the handler, only for a non-excluded path
\* with a token present.
C8_PassThrough ==
    resp.op = "dispatch" =>
        /\ (OnExclusionList(resp.path)
              \/ ~CarriesToken(resp.header, resp.cookie)) =>
                 ( /\ resp.next_calls = 1
                   /\ resp.status = 200
                   /\ resp.detail = "downstream" )
        /\ (resp.status = 401) =>
              ( /\ ~OnExclusionList(resp.path)
                /\ CarriesToken(resp.header, resp.cookie)
                /\ resp.next_calls = 0 )
        /\ resp.next_calls \in {0, 1}
        /\ (resp.next_calls = 0) => (resp.status = 401)

\* An excluded path below "/login" passed through with a garbage token.
C8_Witness ==
    /\ resp.op = "dispatch"
    /\ resp.path # <<"/", "l", "o", "g", "i", "n">>
    /\ OnExclusionList(resp.path)
    /\ resp.header = BearerUpper \o GarbageToken
    /\ resp.next_calls = 1

\* The Authorization header uses the Bearer scheme (scheme names are
\* case-insensitive) and what follows the scheme is its credential.
HasBearerScheme(header) ==
    /\ \E i \in 1..Len(header) : header[i] = Ch(" ")
    /\ Lower(Scheme(header)) = Str(<<"b", "e", "a", "r", "e", "r">>)

StripOnce(v) == IF StartsWith(v, BearerLower) THEN Drop(v, 7) ELSE v

\* C9 (as stated): with a Bearer Authorization header the header's token is
\* the one validated, whatever the cookie; without one the cookie value is
\* used, one leading "bearer " stripped; for the middleware and for
\* get_current_user / get_current_user_optional alike.
C9_HeaderBeforeCookie ==
    ( \/ resp.op = "dispatch" /\ ~OnExclusionList(resp.path)
      \/ resp.op \in {"get_current_user", "get_current_user_optional"} ) =>
        /\ HasBearerScheme(resp.header) =>
              (resp.token = Token(Param(resp.header)))
        /\ (~HasBearerScheme(resp.header) /\ resp.cookie.present) =>
              (resp.token = Token(StripOnce(resp.cookie.value)))

\* C10 (as stated): a handler that depends on get_current_user runs only
\* when verify_access_token accepts the selected token; with no token the
\* dependency raises 401 "Not authenticated", with a token that
\* verify_access_token rejects it raises 401 "Invalid or expired token";
\* get_current_user_optional returns None in both cases and never raises.
C10_Authenticated ==
    /\ (resp.op = "get_current_user") =>
          /\ (resp.result.kind = "data") =>
                ( /\ resp.status = 0
                  /\ resp.token.some
                  /\ verify_access_token(resp.token.token) = resp.result
                  /\ jwt_decode_ok(resp.token.token) )
          /\ (~resp.token.some) =>
                (resp.status = 401 /\ resp.detail = "Not authenticated")
          /\ (resp.token.some
                /\ verify_access_token(resp.token.token).kind = "none") =>
                ( /\ resp.status = 401
                  /\ resp.detail = "Invalid or expired token" )
          /\ (resp.status = 401) => (resp.result.kind = "none")
    /\ resp.op = "get_current_user_optional" =>
          ( /\ resp.status = 0
            /\ resp.result.kind # "raise"
            /\ ( \/ ~resp.token.some
                 \/ verify_access_token(resp.token.token).kind = "none" ) =>
                   (resp.result = Result("none", NoData)) )

\* The row the most recent successful create_login_code stored: row ids only
\* grow within one call, so it is the row with the highest id.
NewestRow ==
    {r \in login_codes : \A q \in login_codes : q.id <= r.id}

\* C11 (as stated): create_login_code(email) invalidates the previous active
\* codes of the email.  After it returns, the only row of that email that
\* get_active_code (and so verify_login_code) accepts is the newly created
\* one; no row stored for the email by an earlier call is still usable.
C11_PreviousInvalidated ==
    (last.op = "create_login_code" /\ last.ret = "ok") =>
        \A new \in NewestRow : \A c \in Codes :
            get_active_code(new.email, c) \subseteq {new}

C16_MarksOnlyOnSuccess ==
    [][\A e \in EmailInputs, c \in CodeInputs :
         VerifyLoginCode(e, c) =>
            /\ {r.id : r \in login_codes'} = {r.id : r \in login_codes}
            /\ Cardinality(login_codes') = Cardinality(login_codes)
            /\ (last'.ret # "identity") => (login_codes' = login_codes)
            /\ (last'.ret = "identity") =>
                  \E row \in get_by_email_and_code(e, c) :
                     /\ ~row.is_used
                     /\ \A r \in login_codes :
                           IF r = row
                           THEN [r EXCEPT !.is_used = TRUE] \in login_codes'
                           ELSE r \in login_codes']_vars

\* A verification succeeded and marked one of two rows that carry the same
\* email and code; the other one is still unused.
C16_Witness ==
    /\ last.op = "verify" /\ last.ret = "identity"
    /\ \E r, q \in login_codes :
          /\ r.email = q.email /\ r.code = q.code
          /\ r.is_used /\ ~q.is_used

\* C13 (as stated): create_login_code with a malformed email (empty, or
\* without "@") fails with the invalid-email error before touching the
\* store: no row is purged, none is created, no mail is dispatched, and the
\* passwordless-login endpoint answers HTTP 400.
C13_MalformedEmailIs400 ==
    [][\A e \in {EmailNoAt, EmailEmpty}, c \in Codes,
          u \in MailUsernames, s \in SmtpOutcomes :
         PasswordlessLogin(e, c, u, s) =>
            /\ login_codes' = login_codes
            /\ mail' = NoMail
            /\ resp'.status = 400
            /\ resp'.detail = "Invalid email address"]_vars

\* the rows stored for (email, code)
RowsFor(email, code) ==
    {r \in login_codes : r.email = email /\ r.code = code}

\* the three cases of an unusable code: never issued for the email, expired
\* (its expiry instant has passed), already used
NeverIssued(email, code) == RowsFor(email, code) = {}

HasExpired(email, code) ==
    /\ RowsFor(email, code) # {}
    /\ \A r \in RowsFor(email, code) : r.expires_at < UtcNow

AlreadyUsed(email, code) ==
    /\ RowsFor(email, code) # {}
    /\ \A r \in RowsFor(email, code) : r.is_used

\* C14 (as stated): the verify-login-code endpoint gives the same response,
\* HTTP 401 with detail "Invalid or expired login code", for a code that was
\* never issued for the email, a code that has expired and a code that was
\* already used, so the caller cannot tell the three cases apart.
C14_SameAnswer ==
    [][\A e \in Emails, c \in Codes :
         ( /\ VerifyLoginCodeRequest(e, c)
           /\ \/ NeverIssued(e, c)
              \/ HasExpired(e, c)
              \/ AlreadyUsed(e, c) ) =>
            resp' = Response("verify_login_code", 401, "",
                             "Invalid or expired login code")]_vars

\* C15 (as stated): verify_login_code with a valid (unexpired, unused) code
\* for an email that has no user account raises the user-not-found error,
\* distinct from the invalid-code failure, and the verify-login-code
\* endpoint answers HTTP 404.
C15_UserNotFoundIs404 ==
    [][\A e \in Emails, c \in Codes :
         ( /\ VerifyLoginCodeRequest(e, c)
           /\ get_by_email(e) = {}
           /\ \E r \in get_active_code(e, c) : UtcNow <= r.expires_at ) =>
            /\ last'.ret = "raise"
            /\ resp'.status = 404]_vars

\* C17 (as stated): mail failures never propagate.  send_email and
\* send_login_code_email return False (credentials not configured, or any
\* exception of the SMTP collaborator) and never raise, and the
\* passwordless-login request then still completes with its success
\* response, the newly created login code persisted and verifiable.
C17_MailFailureHarmless ==
    /\ \A u \in MailUsernames, s \in SmtpOutcomes :
          /\ send_email(u, s) \in {"true", "false"}
          /\ send_login_code_email(u, s) \in {"true", "false"}
          /\ (u = "" \/ s = "raise") =>
                (send_email(u, s) = "false"
                   /\ send_login_code_email(u, s) = "false")
    /\ (resp.op = "passwordless_login" /\ mail.called
          /\ mail.sent = "false") =>
          /\ resp.status = 200
          /\ resp.detail = "Login code sent"
          /\ \E new \in NewestRow :
                /\ new.email = mail.to /\ new.code = mail.code
                /\ ~new.is_used
          /\ get_active_code(mail.to, mail.code) # {}

\* C18 (as stated): under any interleaving of two or more concurrent
\* verify_login_code calls for the same (email, code), each made of the
\* steps look up the row, check the user, write the used flag, at most one
\* call returns the user's identity: a login code row never yields two
\* successful verifications.
C18_AtMostOneSuccess ==
    \A i, j \in Workers :
        ( /\ i # j
          /\ calls[i].ret = "identity"
          /\ calls[j].ret = "identity" ) =>
            (calls[i].row.id # calls[j].row.id)

\* C19 (as stated): every HTTP request is handled with its own database
\* session, created for the request and released at its end; no two
\* requests that overlap in time operate on the same session object, for
\* the post endpoints as for the login endpoints.
C19_SessionPerRequest ==
    /\ \A r \in requests : r.session = RequestSession(r.id)
    /\ \A r, q \in requests : (r.id # q.id) => (r.session # q.session)

\* C20: BaseRepository.update(id, data) merges onto the persisted row only
\* the fields that are set in data, never the identifier.  The row keeps its
\* id even when data carries another id, fields not set in data keep their
\* stored values, every other row is left as it was, and for an id that
\* does not exist update returns None and changes no row.
C20_UpdateMerges ==
    [][\A i \in PostIds, e \in PostInputs :
         UpdatePost(i, e) =>
            IF \A r \in posts : r.id # i
            THEN /\ posts' = posts
                 /\ last'.ret = "none"
            ELSE /\ {r.id : r \in posts'} = {r.id : r \in posts}
                 /\ Cardinality(posts') = Cardinality(posts)
                 /\ \A r \in posts : (r.id # i) => (r \in posts')
                 /\ \E old \in posts, new \in posts' :
                       /\ old.id = i /\ new.id = i
                       /\ last'.ret = "row" /\ last'.row = new
                       /\ \A f \in PostFields \ {"id"} :
                             new[f] = IF f \in e.set THEN e.val[f]
                                      ELSE old[f]]_vars

\* An update that named only the title, with another id in the data,
\* changed the title of a row whose content and state differ from the
\* defaults, and kept them.
C20_Witness ==
    /\ last.op = "update" /\ last.ret = "row"
    /\ last.row.title = "t2"
    /\ last.row.content = "c1"
    /\ last.row.state = "published"
    /\ last.row.id = 1
    /\ \E r \in posts : r.id = 2 /\ r.title = "t1"

\* C25 (as stated): for every request, the middleware's _extract_token and
\* get_current_user select the same token, or both select none, whatever
\* the Authorization header (any spelling of the scheme, an empty
\* credential) and the access_token cookie (absent, empty, with or without
\* the "bearer " prefix).
C25_SameTokenSelected ==
    (resp.op \in {"dispatch", "get_current_user"}) =>
        (_extract_token(resp.header, resp.cookie)
            = SelectToken(resp.header, resp.cookie))

\* C26 (as stated): verify_login_code(email, code) succeeds whenever the
\* store holds at least one unexpired, unused row for (email, code) and the
\* email has a user account, also when other rows with the same
\* (email, code) that are used or expired are still in the store.
C26_AnyValidRowVerifies ==
    [][\A e \in Emails, c \in Codes :
         ( /\ VerifyLoginCode(e, c)
           /\ \E r \in login_codes :
                 r.email = e /\ r.code = c /\ is_valid(r)
           /\ get_by_email(e) # {} )
         => (last'.ret = "identity")
      ]_vars

\* C27 (as stated): the expiry decisions agree on one clock.  At every
\* instant a stored row is expired for LoginCode.is_expired exactly when
\* delete_expired_codes would purge it, so a row created with a TTL is
\* valid from its creation until its expiry instant, whatever the offset
\* between the server's local time and UTC.
C27_OneClock ==
    \A r \in login_codes :
        is_expired(r) <=> (r \in ExpiredRows(login_codes, <<>>))

\* C28: a stored login-code row never changes its email, code or expiry and
\* its used flag never returns from true to false.  In every step each row
\* of the store is either kept as it is, or has its used flag flipped from
\* false to true by verify_login_code, or is expired and deleted by the
\* purge (on its own or inside create_login_code); rows appear only by
\* create_login_code, one at a time and unused.
C28_RowsImmutable ==
    [][ /\ \A r \in login_codes :
             \/ r \in login_codes'
             \/ /\ last'.op = "verify"
                /\ ~r.is_used
                /\ [r EXCEPT !.is_used = TRUE] \in login_codes'
                /\ \A q \in login_codes \ {r} : q \in login_codes'
             \/ /\ last'.op \in {"create_login_code", "delete_expired_codes"}
                /\ r.expires_at < UtcNow
                /\ \A q \in login_codes' : q.id = r.id => q \notin login_codes
        /\ \A q \in login_codes' \ login_codes :
             \/ /\ last'.op = "create_login_code"
                /\ ~q.is_used
                /\ login_codes' \ login_codes = {q}
             \/ /\ last'.op = "verify"
                /\ q.is_used
                /\ [q EXCEPT !.is_used = FALSE] \in login_codes
      ]_vars

\* a code was used and kept, and the purge has just deleted an expired row
C28_Witness ==
    /\ last.op = "delete_expired_codes"
    /\ removed >= 1
    /\ \E r \in login_codes : r.is_used

\* C29 (as stated): a client that sends its expired access_token cookie with
\* every request can still request a login code and verify it: the
\* middleware never answers a request on /passwordless-login or on
\* /verify-login-code with 401 TOKEN_EXPIRED, it hands the request to the
\* handler.
C29_CanReauthenticate ==
    ( /\ resp.op = "dispatch"
      /\ resp.path \in LoginCodeRoutes
      /\ resp.header = <<>>
      /\ \E t \in CookieTokens :
            /\ resp.cookie \in {Cookie(t), Cookie(BearerLower \o t)}
            /\ t[1].jwt.sig = "ok"
            /\ jwt_expired(t[1].jwt) )
    => ( /\ resp.error_code # "TOKEN_EXPIRED"
         /\ resp.next_calls = 1 )

\* C30: the passwordless-login endpoint does not reveal whether an account
\* exists.  For a well-formed email the response (status, message,
\* recipient), the store actions (purge the expired rows of the email, add
\* one unused row) and the mail handed to the mail service are determined
\* by the request, the clock and the login-code rows alone: the user table
\* is neither read nor written, so two runs that differ only in the user
\* table give the same answer and the same actions.
C30_NoAccountOracle ==
    [][\A e \in Emails \cup {EmailNoAt}, c \in Codes,
          u \in MailUsernames, s \in SmtpOutcomes :
         (PasswordlessLogin(e, c, u, s) /\ EmailStr(e)) =>
            /\ resp'.status = 200
            /\ resp'.detail = "Login code sent"
            /\ resp'.user_email = e
            /\ login_codes \ login_codes' = ExpiredRows(login_codes, e)
            /\ \E new \in login_codes' :
                  /\ login_codes' \ login_codes = {new}
                  /\ new.email = e /\ new.code = c /\ ~new.is_used
                  /\ new.expires_at = UtcNow + LoginCodeExpiry
            /\ mail' = [called |-> TRUE, to |-> e, code |-> c,
                        sent |-> send_login_code_email(u, s)]
            /\ users' = users
      ]_vars

\* a code was sent for an email without an account while another email
\* has one
C30_Witness ==
    /\ resp.op = "passwordless_login"
    /\ resp.status = 200
    /\ users # {}
    /\ get_by_email(resp.user_email) = {}
    /\ mail.called /\ mail.to = resp.user_email
    /\ \E r \in login_codes : r.email = resp.user_email /\ r.code = mail.code

\* C21: no two user rows share an email and no two share a display name.
\* create_user with an email or a display name that a row already has
\* raises ValueError and leaves the user table as it is; otherwise it adds
\* exactly one row, with the given email and display name, in state ACTIVE.
C21_UniqueUsers ==
    [][ /\ \A e \in Emails, d \in Emails :
             CreateUser(e, DnOf(d)) =>
                IF \E u \in users : u.email = e \/ u.display_name = DnOf(d)
                THEN last'.ret = "raise" /\ users' = users
                ELSE /\ last'.ret = "ok"
                     /\ users \subseteq users'
                     /\ \E new \in users' :
                           /\ users' \ users = {new}
                           /\ new.email = e
                           /\ new.display_name = DnOf(d)
                           /\ new.state = "ACTIVE"
        /\ \A u, v \in users' :
             (u.email = v.email \/ u.display_name = v.display_name \/ u.id = v.id)
                => (u = v)
      ]_vars

\* two users are registered and a further create_user was refused
C21_Witness ==
    /\ last = Outcome("create_user", "raise")
    /\ Cardinality(users) = 2
    /\ \A u \in users : u.state = "ACTIVE"

C22_LogoutInvalidates ==
    \A t \in logged_out :
        /\ get_current_user(BearerUpper \o t, NoCookie).status = 401
        /\ get_current_user(<<>>, Cookie(BearerLower \o t)).status = 401

\* C23: users can only reset their own password and deactivate their own
\* account.  A reset-password or deactivate request whose user_id differs
\* from the user_id of the caller's token is answered with 403 and changes
\* no user row; whatever the answer, the rows of all users other than the
\* caller keep their password hash, state and changed_at.
C23_OwnAccountOnly ==
    [][ resp'.op \in {"reset_password", "deactivate"} =>
          /\ ( /\ resp'.result.kind = "data"
               /\ resp'.result.data.user_id # resp'.user_id )
             => ( /\ resp'.status = 403
                  /\ users' = users
                  /\ accounts' = accounts )
          /\ \A u \in users :
               ( \/ resp'.result.kind # "data"
                 \/ u.id # resp'.result.data.user_id )
               => (u \in users' /\ accounts'[u.id] = accounts[u.id])
      ]_vars

\* a logged-in user asked to reset the password of the other registered
\* user and was refused
C23_Witness ==
    /\ resp.op = "reset_password"
    /\ resp.status = 403
    /\ resp.result.kind = "data"
    /\ resp.result.data.user_id # resp.user_id
    /\ read(users, resp.user_id) # {}
    /\ read(users, resp.result.data.user_id) # {}

====
